---- MODULE Spec2Model ----
(***************************************************************************)
(* Model of the ansimage package of gif-live (src/unnamed/part_000): the   *)
(* ANSImage cell grid, its bounds-checked accessors, the windowed          *)
(* concurrent row renderer ANSImage.RenderExt, and the construction        *)
(* pipeline NewScaledFromReader -> createANSImage -> New.                  *)
(*                                                                         *)
(* Go slices are modelled as functions over 0..n-1.  Rendered text is a    *)
(* sequence of tokens <<code, r, g, b, glyph>>, one token per escape       *)
(* sequence written by fmt.Sprintf.                                        *)
(***************************************************************************)
EXTENDS Integers, Sequences, FiniteSets, TLC

(* ---------------------------------------------------------------------- *)
(* Bounds of the model                                                    *)
(* ---------------------------------------------------------------------- *)
MaxH == 4
MaxW == 2
MaxFrames == 2
MaxProcsBound == 2
MaxSetAt == 2
MaxCellsY == 2
MaxCellsX == 2
MaxSmallSide == 4

(* ---------------------------------------------------------------------- *)
(* Program constants                                                      *)
(* ---------------------------------------------------------------------- *)
NoDithering == 0
DitheringWithBlocks == 1
DitheringWithChars == 2
ScaleModeResize == 0
ScaleModeFill == 1
ScaleModeFit == 2
BlockSizeY == 8
BlockSizeX == 4

lowerHalfBlock == "u2584"
fullBlock == "u2588"
darkShadeBlock == "u2593"
mediumShadeBlock == "u2592"
lightShadeBlock == "u2591"

ErrNil == "nil"
ErrHeightNonMoT == "ANSImage: height must be a Multiple of Two value"
ErrInvalidBoundsMoT == "ANSImage: height or width must be >=2"
ErrOutOfBounds == "ANSImage: out of bounds"
errUnknownScaleMode == "ANSImage: unknown scale mode"
errUnknownDitheringMode == "ANSImage: unknown dithering mode"

KnownDitheringModes == {NoDithering, DitheringWithBlocks, DitheringWithChars}
KnownScaleModes == {ScaleModeResize, ScaleModeFill, ScaleModeFit}

(* Inputs the callers are drawn from: the modes, the cell values, and the
   coordinates that SetAt and GetAt are called with. *)
DitheringInputs == 0..3
PixelInputs == {<<255, 128, 0, 205>>, <<10, 20, 30, 204>>}
CoordYs == {-1, 0, MaxH - 1, MaxH}
CoordXs == {-1, 0, MaxW}
ScaleInputs == 0..3
\* target sizes in pixels: a few small ones and whole numbers of 8x4 blocks
TargetYs == (1..MaxSmallSide) \cup {BlockSizeY * k : k \in 1..MaxCellsY}
TargetXs == {1, 2} \cup {BlockSizeX * k : k \in 1..MaxCellsX}
\* native sizes <<height, width>> of the decoded GIF
SourceSizes == {<<2, 2>>, <<3, 6>>}
\* contents of a frame: a pattern names the pixel at every coordinate;
\* the frames of a GIF alternate between the two
Patterns == {1, 2}
Backgrounds == {<<0, 0, 0, 255>>, <<0, 0, 0, 0>>}

VARIABLES
    built,      \* TRUE once a constructor has returned a non-nil *ANSImage
    ai,         \* the ANSImage: h, w, maxprocs, bgR, bgG, bgB, dithering, frame, delay
    ret,        \* the last call and what it returned
    pc,         \* position of the goroutine running RenderExt
    rframe,     \* RenderExt argument frame
    rdbg,       \* RenderExt argument disableBgColor
    y,          \* RenderExt: window loop variable y
    n,          \* RenderExt: inner loop variable n
    r,          \* RenderExt: inner loop variable r
    ch,         \* RenderExt: buffered channel of the current window
    workers,    \* RenderExt: goroutines launched that have not yet sent
    rows,       \* RenderExt: the rows slice
    stored,     \* for each slot of rows, the data.row values assigned to it
    launches,   \* the goroutines launched by this call: row and window (y) of each
    hist,       \* the text RenderExt last returned, if the grid has not changed since
    lastSet,    \* values last written by SetAt, per cell
    nset,       \* number of SetAt calls that wrote a cell
    bpc,        \* position in NewScaledFromReader / createANSImage
    src,        \* arguments of NewScaledFromReader and the decoded GIF
    proxy,      \* the gifProxy: scaled image and delay of each frame
    loc,        \* locals: loop index frame, yMin, xMin, yMax, xMax
    work,       \* frames composited, scaled and quantized so far
    play        \* the streaming handler: position, GIFNAME, frame, client, what it emitted

vars == <<built, ai, ret, pc, rframe, rdbg, y, n, r, ch, workers,
          rows, stored, launches, hist, lastSet, nset, bpc, src, proxy, loc, work, play>>

buildVars == <<bpc, src, proxy, loc, work>>

renderVars == <<pc, rframe, rdbg, y, n, r, ch, workers, rows, stored, launches>>

(* ---------------------------------------------------------------------- *)
(* Data model                                                             *)
(* ---------------------------------------------------------------------- *)
Range(k) == 0..(k - 1)

\* The zero value &ANSImage{} stands where the pointer is nil.
NilImage ==
    [h |-> 0, w |-> 0, maxprocs |-> 0, bgR |-> 0, bgG |-> 0, bgB |-> 0,
     dithering |-> 0, frame |-> <<>>, delay |-> <<>>]

\* ret holds the name of the last call and the results it returned:
\* the error, the pixel or text, the integer.  A call in progress has none yet.
NoRet == [op |-> "none", err |-> ErrNil, pix |-> <<>>, val |-> 0]

\* ANSIpixel literal of newFrame.
NewPixel(dm, py) ==
    [R |-> 0, G |-> 0, B |-> 0, Brightness |-> 0,
     upper |-> ((dm = NoDithering) /\ (py % 2 = 0))]

newFrame(hh, ww, dm) ==
    [py \in Range(hh) |-> [px \in Range(ww) |-> NewPixel(dm, py)]]

NewFrames(hh, ww, frameCount, dm) ==
    [f \in Range(frameCount) |-> newFrame(hh, ww, dm)]

\* variant: the delay slice made one element longer than the frame slice
NewDelaysOffByOne(frameCount) ==
    [f \in Range(frameCount + 1) |-> 0]

NewDelays(frameCount) ==
    [f \in Range(frameCount) |-> 0]

\* Error returned by New, ErrNil when the image is created.
NewErr(hh, ww, dm) ==
    IF (dm = NoDithering) /\ (hh % 2 # 0) THEN ErrHeightNonMoT
    ELSE IF hh < 2 \/ ww < 2 THEN ErrInvalidBoundsMoT
    ELSE ErrNil

\* bg.RGBA() of a colour <<r, g, b, a>> with 8-bit channels: each channel c
\* becomes the 16-bit value c*257
RGBA16(bg) == <<bg[1] * 257, bg[2] * 257, bg[3] * 257, bg[4] * 257>>

\* conversion uint8(v) of a 16-bit channel: the low byte
Uint8(v) == v % 256

NewImage(hh, ww, frameCount, bg, dm) ==
    [h |-> hh, w |-> ww, maxprocs |-> 1,
     bgR |-> Uint8(RGBA16(bg)[1]), bgG |-> Uint8(RGBA16(bg)[2]),
     bgB |-> Uint8(RGBA16(bg)[3]),
     dithering |-> dm,
     frame |-> NewFrames(hh, ww, frameCount, dm),
     delay |-> NewDelays(frameCount)]

FrameCount == Cardinality(DOMAIN ai.frame)

InBounds(py, px) == py >= 0 /\ py < ai.h /\ px >= 0 /\ px < ai.w

\* variant: green and blue assigned to each other's field
SetPixelSwapped(py, r8, g8, b8, brightness) ==
    [R |-> r8, G |-> b8, B |-> g8, Brightness |-> brightness,
     upper |-> ((ai.dithering = NoDithering) /\ (py % 2 = 0))]

\* The cell SetAt leaves at (y,x).
SetPixel(py, r8, g8, b8, brightness) ==
    [R |-> r8, G |-> g8, B |-> b8, Brightness |-> brightness,
     upper |-> ((ai.dithering = NoDithering) /\ (py % 2 = 0))]

SetAtFrames(frames, f, py, px, r8, g8, b8, brightness) ==
    [frames EXCEPT ![f][py][px] = SetPixel(py, r8, g8, b8, brightness)]

\* The error SetAt returns for (y,x).
SetAtErr(py, px) == IF InBounds(py, px) THEN ErrNil ELSE ErrOutOfBounds

\* What GetAt returns for (frame,y,x): a copy of the cell, or the error.
GetAtResult(f, py, px) ==
    IF InBounds(py, px)
    THEN [NoRet EXCEPT !.op = "GetAt", !.pix = << ai.frame[f][py][px] >>]
    ELSE [NoRet EXCEPT !.op = "GetAt", !.err = ErrOutOfBounds]

(* ---------------------------------------------------------------------- *)
(* ANSIpixel.RenderExt: text of one cell                                  *)
(* ---------------------------------------------------------------------- *)
BlocksGlyph(bri) ==
    IF bri > 204 THEN fullBlock
    ELSE IF bri > 152 THEN darkShadeBlock
    ELSE IF bri > 100 THEN mediumShadeBlock
    ELSE IF bri > 48 THEN lightShadeBlock
    ELSE " "

CharsGlyph(bri) ==
    IF bri > 230 THEN "#"
    ELSE IF bri > 207 THEN "&"
    ELSE IF bri > 184 THEN "$"
    ELSE IF bri > 161 THEN "X"
    ELSE IF bri > 138 THEN "x"
    ELSE IF bri > 115 THEN "="
    ELSE IF bri > 92 THEN "+"
    ELSE IF bri > 69 THEN ";"
    ELSE IF bri > 46 THEN ":"
    ELSE IF bri > 23 THEN "."
    ELSE " "

\* TRUE when ANSIpixel.RenderExt reaches panic(errUnknownDitheringMode).
PixelPanics(img) == img.dithering \notin KnownDitheringModes

PixelRenderExt(ap, img, disableBgColor) ==
    IF img.dithering = NoDithering
    THEN IF ap.upper
         THEN << <<"48;2", ap.R, ap.G, ap.B, "">> >>
         ELSE << <<"38;2", ap.R, ap.G, ap.B, lowerHalfBlock>> >>
    ELSE LET block == IF img.dithering = DitheringWithBlocks
                      THEN BlocksGlyph(ap.Brightness)
                      ELSE CharsGlyph(ap.Brightness)
             bgColorStr == IF disableBgColor
                           THEN <<>>
                           ELSE << <<"48;2", img.bgR, img.bgG, img.bgB, "">> >>
         IN  bgColorStr \o << <<"38;2", ap.R, ap.G, ap.B, block>> >>

\* "\033[0m\n", the reset that ends every row.
ResetNL == << <<"0", 0, 0, 0, "n">> >>

(* ---------------------------------------------------------------------- *)
(* ANSImage.RenderExt: the goroutine bodies and the loop headers          *)
(* ---------------------------------------------------------------------- *)
RECURSIVE PairRowStr(_, _, _, _, _)
\* inner loop of the no-dithering goroutine, from column x on
PairRowStr(img, f, sy, x0, dbg) ==
    IF x0 >= img.w THEN <<>>
    ELSE PixelRenderExt(img.frame[f][sy][x0], img, dbg)
         \o PixelRenderExt(img.frame[f][sy + 1][x0], img, dbg)
         \o PairRowStr(img, f, sy, x0 + 1, dbg)

RECURSIVE SingleRowStr(_, _, _, _, _)
\* inner loop of the dithering goroutine, from column x on
SingleRowStr(img, f, sy, x0, dbg) ==
    IF x0 >= img.w THEN <<>>
    ELSE PixelRenderExt(img.frame[f][sy][x0], img, dbg)
         \o SingleRowStr(img, f, sy, x0 + 1, dbg)

\* The string a goroutine launched for row rr sends on the channel.
WorkerStr(img, f, rr, dbg) ==
    IF img.dithering = NoDithering
    THEN PairRowStr(img, f, 2 * rr, 0, dbg) \o ResetNL
    ELSE SingleRowStr(img, f, rr, 0, dbg) \o ResetNL

\* make([]string, ai.h/2) or make([]string, ai.h)
RowsLen(img) == IF img.dithering = NoDithering THEN img.h \div 2 ELSE img.h

\* initial value of r in the inner loop headers
FirstR(img, yy) == IF img.dithering = NoDithering THEN yy + 1 ELSE yy

\* condition of the inner loop headers
InnerCond(img, nn, rr) ==
    /\ nn <= img.maxprocs
    /\ IF img.dithering = NoDithering THEN 2 * rr + 1 < img.h ELSE rr + 1 < img.h

\* variant: the post statement steps r one row too far
NextRSkip(yy, nn) == yy + nn + 2

\* post statement n, r = n+1, y+n+1 (right-hand sides use the old n)
NextR(yy, nn) == yy + nn + 1

\* variant: the result stored one slot below its row
SlotOfBelow(data) == IF data.row > 0 THEN data.row - 1 ELSE data.row

\* the slot a received renderData is assigned to
SlotOf(data) == data.row

RECURSIVE JoinFrom(_, _)
\* strings.Join(rows, "") from slot i on
JoinFrom(rs, i) ==
    IF i >= Cardinality(DOMAIN rs) THEN <<>> ELSE rs[i] \o JoinFrom(rs, i + 1)

Join(rs) == JoinFrom(rs, 0)

(* ---------------------------------------------------------------------- *)
(* Initial state: no image yet, no call in progress                       *)
(* ---------------------------------------------------------------------- *)
\* the handler before a request: no frame emitted, the client connected
NoPlay ==
    [pc |-> "start", gifName |-> "", frame |-> 0, closed |-> FALSE,
     prev |-> -1, last |-> -1, waited |-> -1]

NoCall ==
    /\ pc = "idle"
    /\ rframe = 0
    /\ rdbg = FALSE
    /\ y = 0
    /\ n = 0
    /\ r = 0
    /\ ch = <<>>
    /\ workers = {}
    /\ rows = <<>>
    /\ stored = <<>>
    /\ launches = <<>>

NoSrc == [y |-> 0, x |-> 0, bg |-> <<0, 0, 0, 0>>, sm |-> 0, dm |-> 0,
          image |-> <<>>, delay |-> <<>>]

NoProxy == [image |-> <<>>, delay |-> <<>>]

NoLoc == [frame |-> 0, yMin |-> 0, xMin |-> 0, yMax |-> 0, xMax |-> 0]

NoWork == [composited |-> 0, scaled |-> 0, quantized |-> 0]

\* the locals of RenderExt are gone once it has returned
EndCall ==
    /\ pc' = "idle"
    /\ rframe' = 0
    /\ rdbg' = FALSE
    /\ y' = 0
    /\ n' = 0
    /\ r' = 0
    /\ ch' = <<>>
    /\ workers' = {}
    /\ rows' = <<>>
    /\ stored' = <<>>
    /\ launches' = <<>>

Init ==
    /\ built = FALSE
    /\ ai = NilImage
    /\ ret = NoRet
    /\ NoCall
    /\ hist = {}
    /\ lastSet = <<>>
    /\ nset = 0
    /\ bpc = "start"
    /\ src = NoSrc
    /\ proxy = NoProxy
    /\ loc = NoLoc
    /\ work = NoWork
    /\ play = NoPlay

(* ---------------------------------------------------------------------- *)
(* New and the accessors                                                  *)
(* ---------------------------------------------------------------------- *)
New(hh, ww, frameCount, bg, dm) ==
    /\ ~built
    /\ pc = "idle"
    /\ IF NewErr(hh, ww, dm) # ErrNil
       THEN /\ ret' = [NoRet EXCEPT !.op = "New", !.err = NewErr(hh, ww, dm)]
            /\ UNCHANGED <<built, ai>>
       ELSE /\ built' = TRUE
            /\ ai' = NewImage(hh, ww, frameCount, bg, dm)
            /\ ret' = [NoRet EXCEPT !.op = "New"]
    /\ UNCHANGED <<renderVars, hist, lastSet, nset,
                   buildVars, play>>

SetMaxProcs(max) ==
    /\ built
    /\ pc = "idle"
    /\ ai' = [ai EXCEPT !.maxprocs = max]
    /\ UNCHANGED <<built, ret, renderVars, hist, lastSet, nset,
                   buildVars, play>>

FrameCountCall ==
    /\ built
    /\ pc = "idle"
    /\ ret' = [NoRet EXCEPT !.op = "FrameCount", !.val = FrameCount]
    /\ UNCHANGED <<built, ai, renderVars, hist, lastSet, nset,
                   buildVars, play>>

FrameDelay(f) ==
    /\ built
    /\ pc = "idle"
    /\ f \in DOMAIN ai.delay
    /\ ret' = [NoRet EXCEPT !.op = "FrameDelay", !.val = ai.delay[f]]
    /\ UNCHANGED <<built, ai, renderVars, hist, lastSet, nset,
                   buildVars, play>>

SetAt(f, py, px, r8, g8, b8, brightness) ==
    /\ built
    /\ pc = "idle"
    /\ f \in DOMAIN ai.frame
    /\ IF SetAtErr(py, px) = ErrNil
       THEN /\ nset < MaxSetAt
            /\ nset' = nset + 1
            /\ ai' = [ai EXCEPT !.frame =
                        SetAtFrames(ai.frame, f, py, px, r8, g8, b8, brightness)]
            /\ ret' = [NoRet EXCEPT !.op = "SetAt"]
            /\ lastSet' = [c \in (DOMAIN lastSet) \cup {<<f, py, px>>} |->
                             IF c = <<f, py, px>>
                             THEN <<r8, g8, b8, brightness>>
                             ELSE lastSet[c]]
            /\ hist' = {}
       ELSE /\ ret' = [NoRet EXCEPT !.op = "SetAt", !.err = ErrOutOfBounds]
            /\ UNCHANGED <<ai, lastSet, hist, nset>>
    /\ UNCHANGED <<built, renderVars,
                   buildVars, play>>

GetAt(f, py, px) ==
    /\ built
    /\ pc = "idle"
    /\ f \in DOMAIN ai.frame
    /\ ret' = GetAtResult(f, py, px)
    /\ UNCHANGED <<built, ai, renderVars, hist, lastSet, nset,
                   buildVars, play>>

(* ---------------------------------------------------------------------- *)
(* ANSImage.RenderExt, one action per step of the calling goroutine and   *)
(* one for the send of a row goroutine                                    *)
(* ---------------------------------------------------------------------- *)
RenderExtCall(f, disableBgColor) ==
    /\ built
    /\ pc = "idle"
    /\ f \in DOMAIN ai.frame
    /\ pc' = "window"
    /\ rframe' = f
    /\ rdbg' = disableBgColor
    /\ y' = 0
    /\ n' = 0
    /\ r' = 0
    /\ ch' = <<>>
    /\ workers' = {}
    /\ launches' = <<>>
    /\ rows' = [i \in Range(RowsLen(ai)) |-> <<>>]
    /\ stored' = [i \in Range(RowsLen(ai)) |-> {}]
    /\ ret' = [NoRet EXCEPT !.op = "RenderExt.call"]
    /\ UNCHANGED <<built, ai, hist, lastSet, nset,
                   buildVars, play>>

\* header of the window loop: make the channel of the next window
WindowStep ==
    /\ pc = "window"
    /\ y < ai.h
    /\ ch' = <<>>
    /\ n' = 0
    /\ r' = FirstR(ai, y)
    /\ pc' = "launch"
    /\ UNCHANGED <<built, ai, ret, rframe, rdbg, y, workers, rows, stored,
                   launches, hist, lastSet, nset,
                   buildVars, play>>

\* the window loop is over: return strings.Join(rows, ""); the locals die
RenderExtReturn ==
    /\ pc = "window"
    /\ ~(y < ai.h)
    /\ ret' = [NoRet EXCEPT !.op = "RenderExt", !.pix = Join(rows)]
    /\ hist' = {[frame |-> rframe, dbg |-> rdbg, out |-> Join(rows)]}
    /\ EndCall
    /\ UNCHANGED <<built, ai, lastSet, nset,
                   buildVars, play>>

\* one iteration of the first inner loop: go func(...)
Launch ==
    /\ pc = "launch"
    /\ InnerCond(ai, n, r)
    /\ launches' = Append(launches, [row |-> r, win |-> y])
    /\ workers' = workers \cup {Len(launches) + 1}
    /\ n' = n + 1
    /\ r' = NextR(y, n)
    /\ UNCHANGED <<built, ai, ret, pc, rframe, rdbg, y, ch, rows, stored,
                   hist, lastSet, nset,
                   buildVars, play>>

LaunchDone ==
    /\ pc = "launch"
    /\ ~InnerCond(ai, n, r)
    /\ pc' = "collect"
    /\ n' = 0
    /\ r' = FirstR(ai, y)
    /\ UNCHANGED <<built, ai, ret, rframe, rdbg, y, ch, workers, rows, stored,
                   launches, hist, lastSet, nset,
                   buildVars, play>>

\* a goroutine builds its row and sends it: ch <- renderData{...};
\* an unknown dithering mode panics in ANSIpixel.RenderExt and ends the process
WorkerSend(id) ==
    /\ pc \in {"launch", "collect"}
    /\ id \in workers
    /\ IF PixelPanics(ai)
       THEN /\ pc' = "panic"
            /\ ret' = [NoRet EXCEPT !.op = "RenderExt", !.err = errUnknownDitheringMode]
            /\ UNCHANGED <<ch, workers>>
       ELSE /\ Len(ch) < ai.maxprocs
            /\ ch' = Append(ch, [row |-> launches[id].row,
                                 render |-> WorkerStr(ai, rframe, launches[id].row, rdbg)])
            /\ workers' = workers \ {id}
            /\ UNCHANGED <<pc, ret>>
    /\ UNCHANGED <<built, ai, rframe, rdbg, y, n, r, rows, stored, launches,
                   hist, lastSet, nset,
                   buildVars, play>>

\* one iteration of the second inner loop: data := <-ch; rows[data.row] = data.render
Collect ==
    /\ pc = "collect"
    /\ InnerCond(ai, n, r)
    /\ ch # <<>>
    /\ LET data == Head(ch)
       IN  /\ rows' = [rows EXCEPT ![SlotOf(data)] = data.render]
           /\ stored' = [stored EXCEPT ![SlotOf(data)] = @ \cup {data.row}]
    /\ ch' = Tail(ch)
    /\ n' = n + 1
    /\ r' = NextR(y, n)
    /\ UNCHANGED <<built, ai, ret, pc, rframe, rdbg, y, workers, launches,
                   hist, lastSet, nset,
                   buildVars, play>>

\* the second inner loop is over: y += ai.maxprocs
CollectDone ==
    /\ pc = "collect"
    /\ ~InnerCond(ai, n, r)
    /\ y' = y + ai.maxprocs
    /\ pc' = "window"
    /\ UNCHANGED <<built, ai, ret, rframe, rdbg, n, r, ch, workers, rows, stored,
                   launches, hist, lastSet, nset,
                   buildVars, play>>

Next ==
    \/ \E hh \in 1..MaxH, ww \in 1..MaxW, fc \in 0..MaxFrames,
          bg \in Backgrounds, dm \in DitheringInputs : New(hh, ww, fc, bg, dm)
    \/ \E max \in 1..MaxProcsBound : SetMaxProcs(max)
    \/ FrameCountCall
    \/ \E f \in Range(MaxFrames) : FrameDelay(f)
    \/ \E f \in Range(MaxFrames), py \in CoordYs, px \in CoordXs, v \in PixelInputs :
          SetAt(f, py, px, v[1], v[2], v[3], v[4])
    \/ \E f \in Range(MaxFrames), py \in CoordYs, px \in CoordXs : GetAt(f, py, px)
    \/ \E f \in Range(MaxFrames), dbg \in BOOLEAN : RenderExtCall(f, dbg)
    \/ WindowStep
    \/ Launch
    \/ LaunchDone
    \/ \E id \in workers : WorkerSend(id)
    \/ Collect
    \/ CollectDone
    \/ RenderExtReturn

Spec == Init /\ [][Next]_vars

(* ---------------------------------------------------------------------- *)
(* Properties of the renderer and of the accessors (specification Spec)   *)
(* ---------------------------------------------------------------------- *)
\* TRUE in the state from which RenderExt returns
AtReturn == pc = "window" /\ ~(y < ai.h)

RECURSIVE AscendingText(_)
\* the texts of the delivered rows, by ascending row index from row i on
AscendingText(i) ==
    IF i >= RowsLen(ai) THEN <<>>
    ELSE (IF stored[i] # {} THEN WorkerStr(ai, rframe, i, rdbg) ELSE <<>>)
         \o AscendingText(i + 1)

\* C1: a delivered result is only ever stored in the slot of its own row
\* index, and the text RenderExt returns is the concatenation of the delivered
\* row texts in strictly ascending row index, whatever the delivery order.
C1_RowOrder ==
    [][ /\ \A i \in DOMAIN stored' : stored'[i] \subseteq {i}
        /\ RenderExtReturn => ret'.pix = AscendingText(0) ]_vars

\* a later row has been delivered and stored while an earlier row of the
\* same call is still with its goroutine
C1_Witness ==
    \E i \in DOMAIN stored, j \in DOMAIN stored :
        /\ i < j
        /\ stored[j] # {}
        /\ stored[i] = {}
        /\ \E k \in workers : launches[k].row = i

\* C2: when RenderExt returns, rows has one slot per row pair (no dithering)
\* or per grid row (dithering), and every slot holds a row text that ends
\* with the style reset and newline.
C2_AllRowsPresent ==
    AtReturn =>
        /\ DOMAIN rows = Range(IF ai.dithering = NoDithering THEN ai.h \div 2 ELSE ai.h)
        /\ \A i \in DOMAIN rows :
              /\ rows[i] # <<>>
              /\ rows[i][Len(rows[i])] = ResetNL[1]

\* C3: RenderExt returns the same text as the previous call with the same
\* arguments on the unchanged grid, whatever the interleaving of the
\* goroutines and whatever maxprocs is, and no step of a call changes the
\* image.
C3_Idempotent ==
    [][ /\ (pc # "idle" \/ pc' # "idle") => ai' = ai
        /\ RenderExtReturn =>
              \A p \in hist : (p.frame = rframe /\ p.dbg = rdbg) => ret'.pix = p.out ]_vars

\* a second call with the same arguments is about to return the same
\* non-empty text, two of its goroutines having delivered the same row
C3_Witness ==
    /\ AtReturn
    /\ \E p \in hist :
          p.frame = rframe /\ p.dbg = rdbg /\ p.out # <<>> /\ Join(rows) = p.out
    /\ \E a \in DOMAIN launches, b \in DOMAIN launches :
          a # b /\ launches[a].row = launches[b].row

\* C4: the image has as many delays as frame grids, FrameCount() returns that
\* number, and no call changes it.
C4_FrameCount ==
    [][ /\ built' =>
              /\ Cardinality(DOMAIN ai'.frame) = Cardinality(DOMAIN ai'.delay)
              /\ ret'.op = "FrameCount" => ret'.val = Cardinality(DOMAIN ai'.delay)
        /\ built => Cardinality(DOMAIN ai'.frame) = Cardinality(DOMAIN ai.frame) ]_vars

\* FrameCount() has returned 2 after a SetAt and a RenderExt
C4_Witness ==
    /\ built
    /\ ret.op = "FrameCount"
    /\ ret.val = 2
    /\ nset > 0
    /\ hist # {}

PixelValues(ap) == <<ap.R, ap.G, ap.B, ap.Brightness>>

\* C5: for every frame and every coordinate: in bounds, SetAt succeeds and
\* GetAt returns the values SetAt last wrote at that cell (the zero values of
\* New if none), so a SetAt has changed no other cell; out of bounds, both
\* return ErrOutOfBounds and the grid keeps holding what was written in bounds.
C5_ReadAfterWrite ==
    built =>
       \A f \in DOMAIN ai.frame, py \in -1..(MaxH + 1), px \in -1..(MaxW + 1) :
          IF 0 <= py /\ py < ai.h /\ 0 <= px /\ px < ai.w
          THEN /\ SetAtErr(py, px) = ErrNil
               /\ GetAtResult(f, py, px).err = ErrNil
               /\ PixelValues(GetAtResult(f, py, px).pix[1]) =
                     IF <<f, py, px>> \in DOMAIN lastSet
                     THEN lastSet[<<f, py, px>>]
                     ELSE <<0, 0, 0, 0>>
          ELSE /\ SetAtErr(py, px) = ErrOutOfBounds
               /\ GetAtResult(f, py, px).err = ErrOutOfBounds
               /\ GetAtResult(f, py, px).pix = <<>>

\* GetAt has returned a cell that SetAt wrote twice
C5_Witness ==
    /\ ret.op = "GetAt"
    /\ ret.err = ErrNil
    /\ nset = 2
    /\ Cardinality(DOMAIN lastSet) = 1
    /\ PixelValues(ret.pix[1]) \in PixelInputs

\* number of goroutines launched for the window that starts at yy
LaunchedIn(yy) == Cardinality({k \in DOMAIN launches : launches[k].win = yy})

\* C9: a window launches at most maxprocs goroutines, at most maxprocs
\* goroutines are alive at a time, and a row index is launched by one
\* window only.
C9_WindowBound ==
    /\ Cardinality(workers) <= ai.maxprocs
    /\ \A k \in DOMAIN launches : LaunchedIn(launches[k].win) <= ai.maxprocs
    /\ \A a \in DOMAIN launches, b \in DOMAIN launches :
          launches[a].row = launches[b].row => launches[a].win = launches[b].win

(* ---------------------------------------------------------------------- *)
(* NewScaledFromReader and createANSImage                                 *)
(* ---------------------------------------------------------------------- *)
\* Pixel <<r, g, b, a>> of a frame with contents pat at (px, py).  Pattern 1
\* is opaque with a colour that varies by row and column, pattern 2 has
\* transparent pixels on every other column.
PixelAt(pat, px, py) ==
    IF pat = 1
    THEN <<(100 + 16 * py) % 256, (150 + 32 * px) % 256, 200, 255>>
    ELSE IF px % 2 = 0
         THEN <<(40 * py + 8) % 256, 255, (60 * px) % 256, 255>>
         ELSE <<0, 0, 0, 0>>

\* Size <<height, width>> of the image imaging.Resize / Fill / Fit returns
\* for a source of srcH x srcW and the target y, x.
ScaledSize(sm, srcH, srcW, ty, tx) ==
    IF sm = ScaleModeResize \/ sm = ScaleModeFill THEN <<ty, tx>>
    ELSE IF srcW <= tx /\ srcH <= ty THEN <<srcH, srcW>>
    ELSE IF srcW * ty > tx * srcH
         THEN <<IF (tx * srcH) \div srcW = 0 THEN 1 ELSE (tx * srcH) \div srcW, tx>>
         ELSE <<ty, IF (ty * srcW) \div srcH = 0 THEN 1 ELSE (ty * srcW) \div srcH>>

\* rgbaOut at (px, py): the frame drawn over the background when the
\* background is opaque, the frame's own premultiplied pixel otherwise.
Composite(bg, img, px, py) ==
    LET v == PixelAt(img.pat, px, py)
    IN  IF RGBA16(bg)[4] >= 65535
        THEN IF v[4] = 255 THEN v ELSE <<bg[1], bg[2], bg[3], 255>>
        ELSE v

\* yMax, xMax after the update at the head of the frame loop body
NextYMax(dm, yMax) ==
    IF dm = NoDithering THEN yMax - (yMax % 2) ELSE yMax \div BlockSizeY

NextXMax(dm, xMax) ==
    IF dm = NoDithering THEN xMax ELSE xMax \div BlockSizeX

Max3(a, b, c) == IF a >= b /\ a >= c THEN a ELSE IF b >= c THEN b ELSE c

RECURSIVE BlockSum(_, _, _, _, _, _)
\* sums of R, G, B and of the HSV value over the pixels k..31 of block (cy, cx),
\* in units of 1/255
BlockSum(bg, img, cy, cx, k, acc) ==
    IF k >= BlockSizeY * BlockSizeX THEN acc
    ELSE LET dy == k \div BlockSizeX
             dx == k % BlockSizeX
             v == Composite(bg, img, BlockSizeX * cx + dx, BlockSizeY * cy + dy)
             c == IF v[4] = 0 THEN <<0, 0, 0>> ELSE <<v[1], v[2], v[3]>>
         IN  BlockSum(bg, img, cy, cx, k + 1,
                      <<acc[1] + c[1], acc[2] + c[2], acc[3] + c[3],
                        acc[4] + Max3(c[1], c[2], c[3])>>)

\* uint8(sum/float64(pixelCount)*255.0 + 0.5) for a sum given in units of 1/255
Round8(sum) == (2 * sum + BlockSizeY * BlockSizeX) \div (2 * BlockSizeY * BlockSizeX)

\* <<r, g, b, brightness>> that createANSImage passes to SetAt for cell (cy, cx)
QuantizeCell(dm, bg, img, cy, cx) ==
    IF dm = NoDithering
    THEN LET v == Composite(bg, img, cx, cy) IN <<v[1], v[2], v[3], 0>>
    ELSE LET sum == BlockSum(bg, img, cy, cx, 0, <<0, 0, 0, 0>>)
         IN  <<Round8(sum[1]), Round8(sum[2]), Round8(sum[3]), Round8(sum[4])>>

NewScaledFromReader(ty, tx, bg, sm, dm, images, delays) ==
    /\ bpc = "start"
    /\ ~built
    /\ pc = "idle"
    /\ ret.op = "none"
    /\ src' = [y |-> ty, x |-> tx, bg |-> bg, sm |-> sm, dm |-> dm,
               image |-> images, delay |-> delays]
    /\ proxy' = [image |-> [f \in DOMAIN images |-> [H |-> 0, W |-> 0, pat |-> 0]],
                 delay |-> [f \in DOMAIN delays |-> 0]]
    /\ loc' = NoLoc
    /\ bpc' = "scale"
    /\ UNCHANGED <<built, ai, ret, renderVars, hist, lastSet, nset, work, play>>

\* one iteration of the loop over gifImage.Image: copy the delay, draw the
\* frame over img, scale it
ScaleFrame ==
    /\ bpc = "scale"
    /\ loc.frame \in DOMAIN src.image
    /\ LET f == loc.frame
           size == ScaledSize(src.sm, src.image[f].H, src.image[f].W, src.y, src.x)
       IN  IF src.sm \in KnownScaleModes
           THEN /\ proxy' = [proxy EXCEPT
                               !.delay[f] = src.delay[f],
                               !.image[f] = [H |-> size[1], W |-> size[2],
                                             pat |-> src.image[f].pat]]
                /\ work' = [work EXCEPT !.composited = @ + 1, !.scaled = @ + 1]
                /\ loc' = [loc EXCEPT !.frame = f + 1]
                /\ UNCHANGED <<bpc, ret>>
           ELSE /\ proxy' = [proxy EXCEPT !.delay[f] = src.delay[f]]
                /\ work' = [work EXCEPT !.composited = @ + 1]
                /\ bpc' = "panic"
                /\ ret' = [NoRet EXCEPT !.op = "NewScaledFromReader",
                                        !.err = errUnknownScaleMode]
                /\ UNCHANGED loc
    /\ UNCHANGED <<built, ai, renderVars, hist, lastSet, nset, src, play>>

\* createANSImage up to the frame loop: the bounds of image 0, then New
CreateStart ==
    /\ bpc = "scale"
    /\ loc.frame \notin DOMAIN src.image
    /\ LET yMax == proxy.image[0].H
           xMax == proxy.image[0].W
           frameCount == Cardinality(DOMAIN proxy.image)
       IN  IF NewErr(yMax, xMax, src.dm) # ErrNil
           THEN /\ ret' = [NoRet EXCEPT !.op = "NewScaledFromReader",
                                        !.err = NewErr(yMax, xMax, src.dm)]
                /\ bpc' = "done"
                /\ UNCHANGED <<ai, loc>>
           ELSE /\ ai' = NewImage(yMax, xMax, frameCount, src.bg, src.dm)
                /\ loc' = [frame |-> 0, yMin |-> 0, xMin |-> 0,
                           yMax |-> yMax, xMax |-> xMax]
                /\ bpc' = "quantize"
                /\ UNCHANGED ret
    /\ UNCHANGED <<built, renderVars, hist, lastSet, nset, src, proxy, work, play>>

\* the cells the body of the frame loop writes, in the order it writes them
RegionCells(yMin, xMin, yMax, xMax) ==
    {<<cy, cx>> : cy \in yMin..(yMax - 1), cx \in xMin..(xMax - 1)}

\* one iteration of the frame loop of createANSImage: store the delay,
\* composite, update yMax and xMax, SetAt every cell of the region
QuantizeFrame ==
    /\ bpc = "quantize"
    /\ loc.frame \in DOMAIN proxy.image
    /\ LET f == loc.frame
           yMax == NextYMax(src.dm, loc.yMax)
           xMax == NextXMax(src.dm, loc.xMax)
           cells == RegionCells(loc.yMin, loc.xMin, yMax, xMax)
           val == [c \in cells |-> QuantizeCell(src.dm, src.bg, proxy.image[f], c[1], c[2])]
       IN  IF \E c \in cells : SetAtErr(c[1], c[2]) # ErrNil
           THEN /\ ret' = [NoRet EXCEPT !.op = "NewScaledFromReader",
                                        !.err = ErrOutOfBounds]
                /\ bpc' = "done"
                /\ UNCHANGED <<ai, loc, lastSet, work>>
           ELSE /\ ai' = [ai EXCEPT
                            !.delay[f] = proxy.delay[f],
                            !.frame[f] =
                               [py \in Range(ai.h) |-> [px \in Range(ai.w) |->
                                  IF <<py, px>> \in cells
                                  THEN SetPixel(py, val[<<py, px>>][1], val[<<py, px>>][2],
                                                val[<<py, px>>][3], val[<<py, px>>][4])
                                  ELSE ai.frame[f][py][px]]]]
                /\ lastSet' = [c \in (DOMAIN lastSet) \cup {<<f, d[1], d[2]>> : d \in cells} |->
                                 IF c[1] = f /\ <<c[2], c[3]>> \in cells
                                 THEN val[<<c[2], c[3]>>]
                                 ELSE lastSet[c]]
                /\ loc' = [loc EXCEPT !.frame = f + 1, !.yMax = yMax, !.xMax = xMax]
                /\ work' = [work EXCEPT !.quantized = @ + 1]
                /\ UNCHANGED <<bpc, ret>>
    /\ UNCHANGED <<built, renderVars, hist, nset, src, proxy, play>>

\* return ansimage, nil
CreateReturn ==
    /\ bpc = "quantize"
    /\ loc.frame \notin DOMAIN proxy.image
    /\ built' = TRUE
    /\ bpc' = "done"
    /\ ret' = [NoRet EXCEPT !.op = "NewScaledFromReader"]
    /\ UNCHANGED <<ai, renderVars, hist, lastSet, nset, src, proxy, loc, work, play>>

\* the playback loop reads the count and the delays of the image it was given
BuildNext ==
    \/ \E ty \in TargetYs, tx \in TargetXs, bg \in Backgrounds,
          sm \in ScaleInputs, dm \in DitheringInputs,
          fc \in 1..MaxFrames, size \in SourceSizes, first \in Patterns :
             NewScaledFromReader(ty, tx, bg, sm, dm,
                [f \in Range(fc) |-> [H |-> size[1], W |-> size[2],
                                      pat |-> 1 + ((first + f) % 2)]],
                [f \in Range(fc) |-> 10 * (f + 1)])
    \/ ScaleFrame
    \/ CreateStart
    \/ QuantizeFrame
    \/ CreateReturn

SpecBuild == Init /\ [][BuildNext]_vars

(* ---------------------------------------------------------------------- *)
(* Properties of the construction (specification SpecBuild)               *)
(* ---------------------------------------------------------------------- *)
\* TRUE once NewScaledFromReader has returned or panicked
BuildOver == bpc \in {"done", "panic"}

NoFrameWork == work.composited = 0 /\ work.scaled = 0 /\ work.quantized = 0

\* C6: a no-dithering build with an odd target height returns
\* ErrHeightNonMoT and no image, and no frame has been composited, scaled or
\* quantized by then.
C6_OddHeightFailsFirst ==
    (BuildOver /\ src.dm = NoDithering /\ src.sm \in KnownScaleModes /\ src.y % 2 = 1) =>
        /\ ret.err = ErrHeightNonMoT
        /\ ~built
        /\ NoFrameWork

\* C7: a build with an unknown scale mode or an unknown dithering mode is
\* aborted before any frame work, and no image that was returned carries an
\* unknown dithering mode.
C7_UnknownModesRejected ==
    /\ built => ai.dithering \in KnownDitheringModes
    /\ (BuildOver /\ (src.sm \notin KnownScaleModes \/ src.dm \notin KnownDitheringModes)) =>
          /\ ~built
          /\ ret.err # ErrNil
          /\ NoFrameWork

\* C8: in dithering modes, when the build has returned an image from F
\* buffers of H x W pixels, every cell (y,x) with y < H div 8 and x < W div 4
\* of every frame has been written with the average of that frame's 8x4 block.
C8_SameRegionEveryFrame ==
    (bpc = "done" /\ built /\ src.dm \in {DitheringWithBlocks, DitheringWithChars}) =>
        \A f \in DOMAIN proxy.image :
           \A cy \in Range(proxy.image[0].H \div BlockSizeY),
              cx \in Range(proxy.image[0].W \div BlockSizeX) :
              /\ <<f, cy, cx>> \in DOMAIN lastSet
              /\ PixelValues(ai.frame[f][cy][cx]) =
                    QuantizeCell(src.dm, src.bg, proxy.image[f], cy, cx)

\* C10: in no-dithering mode, for scaled buffers of H >= 2 by W >= 2 pixels,
\* H odd or even, the build returns an image of H - (H mod 2) rows and every
\* cell of those rows has been written from the buffer of its frame.
C10_HeightTruncatedToEven ==
    (bpc = "done" /\ src.dm = NoDithering
       /\ proxy.image[0].H >= 2 /\ proxy.image[0].W >= 2) =>
        /\ built
        /\ ai.h = proxy.image[0].H - (proxy.image[0].H % 2)
        /\ \A f \in DOMAIN proxy.image, cy \in Range(ai.h), cx \in Range(proxy.image[0].W) :
              /\ <<f, cy, cx>> \in DOMAIN lastSet
              /\ PixelValues(ai.frame[f][cy][cx]) =
                    QuantizeCell(src.dm, src.bg, proxy.image[f], cy, cx)

(* ---------------------------------------------------------------------- *)
(* RenderExt under fair scheduling (specification SpecLive)               *)
(* ---------------------------------------------------------------------- *)
\* the steps of the goroutine that runs RenderExt
RenderStep ==
    \/ WindowStep
    \/ Launch
    \/ LaunchDone
    \/ Collect
    \/ CollectDone
    \/ RenderExtReturn

\* the send (or the panic) of one of the row goroutines
WorkerStep == \E id \in workers : WorkerSend(id)

LiveNext ==
    \/ \E hh \in 1..MaxH, ww \in 1..MaxW, fc \in 0..MaxFrames,
          bg \in Backgrounds, dm \in DitheringInputs : New(hh, ww, fc, bg, dm)
    \/ \E max \in 1..MaxProcsBound : SetMaxProcs(max)
    \/ \E f \in Range(MaxFrames), dbg \in BOOLEAN : RenderExtCall(f, dbg)
    \/ RenderStep
    \/ WorkerStep

\* the Go scheduler keeps running every goroutine that can take a step
SpecLive ==
    /\ Init
    /\ [][LiveNext]_vars
    /\ WF_vars(RenderStep)
    /\ WF_vars(WorkerStep)

\* TRUE when the second inner loop of a window is over
WindowCollected == pc = "collect" /\ ~InnerCond(ai, n, r)

\* RenderExt has returned its text
Returned == pc = "idle" /\ ret.op = "RenderExt" /\ ret.err = ErrNil

\* C11: for every maxprocs >= 1 and every grid, under fair scheduling: the
\* channel never holds more than maxprocs results, the collector has received
\* as many results as the window launched when it advances (no goroutine and
\* no result is left behind), and every call of RenderExt returns its text.
C11_RenderTerminates ==
    /\ [](Len(ch) <= ai.maxprocs)
    /\ [](WindowCollected => (n = LaunchedIn(y) /\ workers = {} /\ ch = <<>>))
    /\ (pc # "idle") ~> Returned

\* the same for the images whose dithering mode is one of the three known
\* modes: their calls do return
TerminatesForKnownModes ==
    (pc # "idle" /\ ~PixelPanics(ai)) ~> Returned

\* a goroutine is blocked on the full channel of its window while the
\* collector has yet to receive
BlockedSender ==
    /\ pc = "collect"
    /\ workers # {}
    /\ Len(ch) = ai.maxprocs
    /\ ~PixelPanics(ai)

(* ---------------------------------------------------------------------- *)
(* The streaming handler of main.go (specification SpecPlay)              *)
(* ---------------------------------------------------------------------- *)
VT100_WIDTH == 80
VT100_HEIGHT == 24
DITHERING_MODE == NoDithering
SCALE_MODE == ScaleModeFit
BACKGROUND_COLOUR == <<0, 0, 0, 255>>

\* values of the path parameter GIFNAME, and the three the switch knows
GifNames == {"reimu", "chirno", "cat", "other"}
KnownGifs == {"reimu", "chirno", "cat"}
\* native sizes <<height, width>> of the files in ./gifs
GifSizes == {<<2, 2>>, <<4, 2>>, <<3, 6>>}

\* sfy, sfx: the scale factors for the grid
ScaleFactor ==
    IF DITHERING_MODE = NoDithering THEN <<2, 1>> ELSE <<BlockSizeY, BlockSizeX>>

\* frame++ followed by frame = 0 from FrameCount() on, tested one too late
WrapFrameLate(frame, count) == IF frame > count THEN 0 ELSE frame

\* if frame >= image.FrameCount() { frame = 0 }
WrapFrame(frame, count) == IF frame >= count THEN 0 ELSE frame

\* the request arrives: the switch on gifName chooses the file or answers 404
PlayRequest(name) ==
    /\ play.pc = "start"
    /\ play' = [play EXCEPT !.gifName = name,
                            !.pc = IF name \in KnownGifs THEN "load" ELSE "404"]
    /\ UNCHANGED <<built, ai, ret, renderVars, hist, lastSet, nset, buildVars>>

\* NewScaledFromFile: os.Open fails and the error is returned
PlayOpenFails ==
    /\ play.pc = "load"
    /\ bpc = "start"
    /\ play' = [play EXCEPT !.pc = "500"]
    /\ UNCHANGED <<built, ai, ret, renderVars, hist, lastSet, nset, buildVars>>

\* NewScaledFromFile: the file opens and NewScaledFromReader decodes it
PlayLoad(images, delays) ==
    /\ play.pc = "load"
    /\ NewScaledFromReader(ScaleFactor[1] * VT100_HEIGHT, ScaleFactor[2] * VT100_WIDTH,
                           BACKGROUND_COLOUR, SCALE_MODE, DITHERING_MODE, images, delays)

\* if loadErr != nil: answer 500; otherwise frame := 0 and enter the loop
PlayLoaded ==
    /\ play.pc = "load"
    /\ bpc = "done"
    /\ play' = [play EXCEPT !.pc = IF ret.err # ErrNil THEN "500" ELSE "loop",
                            !.frame = 0]
    /\ UNCHANGED <<built, ai, ret, renderVars, hist, lastSet, nset, buildVars>>

\* the client goes away: the channel of CloseNotify() gets its value
ClientClose ==
    /\ play.pc \in {"load", "loop", "default", "sleep", "wrap"}
    /\ ~play.closed
    /\ play' = [play EXCEPT !.closed = TRUE]
    /\ UNCHANGED <<built, ai, ret, renderVars, hist, lastSet, nset, buildVars>>

\* select: the notification if it is there (return nil), the default otherwise
PlaySelect ==
    /\ play.pc = "loop"
    /\ play' = [play EXCEPT !.pc = IF play.closed THEN "returned" ELSE "default"]
    /\ UNCHANGED <<built, ai, ret, renderVars, hist, lastSet, nset, buildVars>>

\* image.RenderExt(frame, false) is called
PlayRender ==
    /\ play.pc = "default"
    /\ ret.op # "RenderExt"
    /\ RenderExtCall(play.frame, FALSE)

\* fmt.Fprintln(w, <the text RenderExt returned>); flusher.Flush()
PlayPrint ==
    /\ play.pc = "default"
    /\ pc = "idle"
    /\ ret.op = "RenderExt"
    /\ play' = [play EXCEPT !.pc = "sleep", !.prev = play.last,
                            !.last = play.frame, !.waited = -1]
    /\ UNCHANGED <<built, ai, ret, renderVars, hist, lastSet, nset, buildVars>>

\* image.FrameDelay(frame) is called
PlayDelay ==
    /\ play.pc = "sleep"
    /\ ret.op = "RenderExt"
    /\ FrameDelay(play.frame)

\* time.Sleep of 10 ms per unit of the delay returned; frame++
PlaySleep ==
    /\ play.pc = "sleep"
    /\ ret.op = "FrameDelay"
    /\ play' = [play EXCEPT !.pc = "wrap", !.waited = ret.val * 10,
                            !.frame = play.frame + 1]
    /\ UNCHANGED <<built, ai, ret, renderVars, hist, lastSet, nset, buildVars>>

\* image.FrameCount() is called
PlayCount ==
    /\ play.pc = "wrap"
    /\ ret.op = "FrameDelay"
    /\ FrameCountCall

\* if frame >= image.FrameCount() { frame = 0 }, and back to the select
PlayWrap ==
    /\ play.pc = "wrap"
    /\ ret.op = "FrameCount"
    /\ play' = [play EXCEPT !.pc = "loop", !.frame = WrapFrame(play.frame, ret.val)]
    /\ UNCHANGED <<built, ai, ret, renderVars, hist, lastSet, nset, buildVars>>

PlayNext ==
    \/ \E name \in GifNames : PlayRequest(name)
    \/ PlayOpenFails
    \/ \E fc \in 1..MaxFrames, size \in GifSizes, first \in Patterns :
          PlayLoad([f \in Range(fc) |-> [H |-> size[1], W |-> size[2],
                                         pat |-> 1 + ((first + f) % 2)]],
                   [f \in Range(fc) |-> 10 * (f + 1)])
    \/ ScaleFrame
    \/ CreateStart
    \/ QuantizeFrame
    \/ CreateReturn
    \/ PlayLoaded
    \/ ClientClose
    \/ PlaySelect
    \/ PlayRender
    \/ RenderStep
    \/ WorkerStep
    \/ PlayPrint
    \/ PlayDelay
    \/ PlaySleep
    \/ PlayCount
    \/ PlayWrap

SpecPlay == Init /\ [][PlayNext]_vars

(* ---------------------------------------------------------------------- *)
(* Properties of the playback loop (specification SpecPlay)               *)
(* ---------------------------------------------------------------------- *)
\* the positions at which frame is the index of the iteration
FrameInUse == play.pc \in {"loop", "default", "sleep"}

\* C12: in the playback loop the frame index given to RenderExt and to
\* FrameDelay is within [0, FrameCount()); the frames are emitted in the
\* order 0, 1, ..., FrameCount()-1, 0, ...; each is followed by a wait of 10 ms
\* per unit of that frame's GIF delay; and once the select has taken the
\* disconnect notification the handler has returned and asks for nothing more.
C12_PlaybackOrder ==
    /\ [](FrameInUse => play.frame \in Range(FrameCount))
    /\ [](pc # "idle" => (play.pc = "default" /\ rframe = play.frame))
    /\ [](play.last # -1 =>
             play.last = IF play.prev = -1 THEN 0 ELSE (play.prev + 1) % FrameCount)
    /\ []((play.last # -1 /\ play.pc # "sleep") =>
             play.waited = 10 * src.delay[play.last])
    /\ [](play.pc = "returned" => (play.closed /\ pc = "idle"))
    /\ [][play.pc = "returned" => (ret' = ret /\ pc' = pc /\ play' = play)]_vars

\* the loop has emitted frames 0, 1 and 0 again of a two-frame GIF, each
\* followed by its wait, and has then returned on the notification
C12_Witness ==
    /\ play.pc = "returned"
    /\ FrameCount = 2
    /\ play.prev = 1
    /\ play.last = 0
    /\ play.waited = 10 * src.delay[0]
    /\ play.frame = 1

====
